---------------------------- MODULE Spec2Model ----------------------------
(***************************************************************************)
(* A model of the typed configuration registry of Kansuler/configura       *)
(* (src/configura.go): the per-type maps of a config, the sync.RWMutex     *)
(* that guards them, and the operations New, Load, Write, the typed        *)
(* getters, Exists (with checkKey) and Merge, each split at its lock       *)
(* operations so that the interleavings of concurrent callers are the      *)
(* behaviours of the model.                                                *)
(*                                                                         *)
(* Go values are represented as follows.  A string, a []byte and a []rune  *)
(* are the sequence of their characters (the empty string, and the nil     *)
(* slice a getter returns for a missing key, are << >>); an integer is an  *)
(* Int; a bool is a BOOLEAN; a float is the exact number of its tenths     *)
(* (the texts in the bounds have at most one fractional digit).            *)
(***************************************************************************)
EXTENDS Integers, Sequences, FiniteSets, TLC

\* The closed set of value types (the constraint interface).
Types ==
    {"string", "int", "int8", "int16", "int32", "int64",
     "uint", "uint8", "uint16", "uint32", "uint64", "uintptr",
     "bytes", "runes", "float32", "float64", "bool"}

SignedTypes == {"int", "int8", "int16", "int32", "int64"}
UnsignedTypes == {"uint", "uint8", "uint16", "uint32", "uint64", "uintptr"}
FloatTypes == {"float32", "float64"}
TextTypes == {"string", "bytes", "runes"}

\* The value a typed getter returns for a key that is not in its map.
ZeroValue(ty) ==
    IF ty \in TextTypes THEN << >>
    ELSE IF ty = "bool" THEN FALSE
    ELSE 0

\* A typed key, Variable[T]: the type tag and the name string.
Key(ty, name) == <<ty, name>>
KeyType(k) == k[1]
KeyName(k) == k[2]
\* An argument of Exists (of type any) that is a string, not a Variable[T].
PlainString(text) == <<"plain string", text>>

(***************************************************************************)
(* The process environment and the per-type environment readers that Load  *)
(* calls (String, Int, ..., Bool(key, fallback)).  A text is a sequence of *)
(* one-character strings.                                                  *)
(***************************************************************************)
Unset == [set |-> FALSE, text |-> << >>]
SetTo(text) == [set |-> TRUE, text |-> text]

Digits == {"0", "1", "2", "3", "4", "5", "6", "7", "8", "9"}

DigitVal(c) ==
    CASE c = "0" -> 0 [] c = "1" -> 1 [] c = "2" -> 2 [] c = "3" -> 3
      [] c = "4" -> 4 [] c = "5" -> 5 [] c = "6" -> 6 [] c = "7" -> 7
      [] c = "8" -> 8 [] c = "9" -> 9

IsDigits(s) == Len(s) > 0 /\ \A i \in 1..Len(s) : s[i] \in Digits

RECURSIVE DecimalVal(_)
DecimalVal(s) ==
    IF Len(s) = 0 THEN 0
    ELSE 10 * DecimalVal(SubSeq(s, 1, Len(s) - 1)) + DigitVal(s[Len(s)])

Tail1(s) == SubSeq(s, 2, Len(s))

\* The width in bits of an integer type.
Bits(ty) ==
    CASE ty \in {"int8", "uint8"} -> 8
      [] ty \in {"int16", "uint16"} -> 16
      [] ty \in {"int32", "uint32"} -> 32
      [] OTHER -> 64

Pow2(n) == IF n = 7 THEN 128 ELSE IF n = 8 THEN 256
           ELSE IF n = 15 THEN 32768 ELSE 65536

\* Whether n fits the width: a text of the bounded length cannot overflow
\* 32 or 64 bits, so only the 8 and 16 bit widths are decided by value.
FitsSigned(ty, n) ==
    Bits(ty) >= 32 \/ (n >= 0 - Pow2(Bits(ty) - 1) /\ n <= Pow2(Bits(ty) - 1) - 1)
FitsUnsigned(ty, n) ==
    n >= 0 /\ (Bits(ty) >= 32 \/ n <= Pow2(Bits(ty)) - 1)

NoParse == [ok |-> FALSE, v |-> 0]

\* Base-10 signed parsing: an optional sign, then digits; out of the width's
\* range is a parse failure.
ParseInt(ty, s) ==
    LET neg == Len(s) > 0 /\ s[1] = "-"
        signed == Len(s) > 0 /\ s[1] \in {"-", "+"}
        body == IF signed THEN Tail1(s) ELSE s
    IN  IF ~IsDigits(body) THEN NoParse
        ELSE LET n == IF neg THEN 0 - DecimalVal(body) ELSE DecimalVal(body)
             IN  IF FitsSigned(ty, n) THEN [ok |-> TRUE, v |-> n] ELSE NoParse

\* Base-10 unsigned parsing: digits only.
ParseUint(ty, s) ==
    IF ~IsDigits(s) THEN NoParse
    ELSE IF FitsUnsigned(ty, DecimalVal(s)) THEN [ok |-> TRUE, v |-> DecimalVal(s)]
    ELSE NoParse

\* Decimal floating-point parsing of [sign] digits [. digit]: the value in
\* tenths.
ParseFloat(s) ==
    LET neg == Len(s) > 0 /\ s[1] = "-"
        signed == Len(s) > 0 /\ s[1] \in {"-", "+"}
        body == IF signed THEN Tail1(s) ELSE s
        dotted == Len(body) >= 3 /\ body[Len(body) - 1] = "."
        whole == IF dotted THEN SubSeq(body, 1, Len(body) - 2) ELSE body
        frac == IF dotted THEN body[Len(body)] ELSE "0"
    IN  IF ~IsDigits(whole) \/ frac \notin Digits THEN NoParse
        ELSE LET n == 10 * DecimalVal(whole) + DigitVal(frac)
             IN  [ok |-> TRUE, v |-> IF neg THEN 0 - n ELSE n]

\* The conventional truthy and falsy forms.
TrueTexts == {<<"1">>, <<"t">>, <<"T">>, <<"t", "r", "u", "e">>,
              <<"T", "R", "U", "E">>, <<"T", "r", "u", "e">>}
FalseTexts == {<<"0">>, <<"f">>, <<"F">>, <<"f", "a", "l", "s", "e">>,
               <<"F", "A", "L", "S", "E">>, <<"F", "a", "l", "s", "e">>}

ParseBool(s) ==
    IF s \in TrueTexts THEN [ok |-> TRUE, v |-> TRUE]
    ELSE IF s \in FalseTexts THEN [ok |-> TRUE, v |-> FALSE]
    ELSE [ok |-> FALSE, v |-> FALSE]

\* The text of a variable parsed as type ty: [ok, v].
Parse(ty, s) ==
    IF ty \in TextTypes THEN [ok |-> TRUE, v |-> s]
    ELSE IF ty = "bool" THEN ParseBool(s)
    ELSE IF ty \in SignedTypes THEN ParseInt(ty, s)
    ELSE IF ty \in UnsignedTypes THEN ParseUint(ty, s)
    ELSE ParseFloat(s)

\* String(key, fallback), Int(key, fallback), ...: the value of the
\* environment variable named by the key, or the fallback when the variable
\* is unset or its text does not parse as the key's type.
EnvValue(e, k, fallback) ==
    LET var == e[KeyName(k)]
    IN  IF ~var.set THEN fallback
        ELSE IF Parse(KeyType(k), var.text).ok THEN Parse(KeyType(k), var.text).v
        ELSE fallback

(***************************************************************************)
(* Bounds and input sets.                                                  *)
(***************************************************************************)
\* The number of operations started in one behaviour.
MaxOps == 3
\* The number of registries one behaviour constructs (New and Merge).
MaxRegs == 3

Threads == {"t1", "t2"}
NoThread == "none"
RegIds == 1..MaxRegs
Names == {"A", "B"}

(***************************************************************************)
(* The state.                                                              *)
(***************************************************************************)
VARIABLES
    env,        \* the process environment: name -> Unset or SetTo(text)
    regs,       \* registry id -> the seventeen per-type maps of a config
    alloc,      \* the registries constructed so far
    published,  \* the registries a caller holds a reference to
    wOwner,     \* rwLock: the writer that has called Lock and not yet Unlock
    readers,    \* rwLock: thread -> number of read locks it holds
    pc,         \* each thread's position
    op,         \* each thread's call: arguments and locals
    nops,       \* operations started
    last,       \* history: registry -> key -> the last Load or Write naming it
    completed,  \* history: registry -> keys whose Load or Write has returned
    obs         \* history: per Exists call, what the registry held during the call

vars == <<env, regs, alloc, published, wOwner, readers, pc, op, nops,
          last, completed, obs>>

\* A map of Go with no entry.
EmptyMap == << >>

\* New(): one empty map per type.
New == [ty \in Types |-> EmptyMap]

\* m[name] = v.
MapStore(m, name, v) ==
    [n \in (DOMAIN m) \cup {name} |-> IF n = name THEN v ELSE m[n]]

\* maps.Copy(dst, src): every entry of src is stored in dst.
MapsCopy(dst, src) ==
    [n \in (DOMAIN dst) \cup (DOMAIN src) |->
        IF n \in DOMAIN src THEN src[n] ELSE dst[n]]

\* value, exists := c.regT[key]; the getter's result.
Lookup(c, k) ==
    IF KeyName(k) \in DOMAIN c[KeyType(k)] THEN c[KeyType(k)][KeyName(k)]
    ELSE ZeroValue(KeyType(k))

\* Mutant of CheckKeyResult: the name is looked up in the maps of all types.
CheckKeyAnyType(c, k) ==
    [keyName |-> KeyName(k), exists |-> \E ty \in Types : KeyName(k) \in DOMAIN c[ty]]

\* Mutant of CheckKeyResult: a key counts as registered when its value is
\* not the zero value.
CheckKeyNonZero(c, k) ==
    [keyName |-> KeyName(k),
     exists |-> /\ KeyType(k) \in Types
                /\ KeyName(k) \in DOMAIN c[KeyType(k)]
                /\ c[KeyType(k)][KeyName(k)] # ZeroValue(KeyType(k))]

\* Mutant of CheckKeyResult: the text of an argument of no supported type is
\* reported as its name.
CheckKeyPlainName(c, k) ==
    [keyName |-> KeyName(k),
     exists |-> KeyType(k) \in Types /\ KeyName(k) \in DOMAIN c[KeyType(k)]]

\* checkKey's type switch: the key's name and whether its map holds it; a
\* key of no supported type leaves both at their zero values.
CheckKeyResult(c, k) ==
    IF KeyType(k) \in Types
    THEN [keyName |-> KeyName(k), exists |-> KeyName(k) \in DOMAIN c[KeyType(k)]]
    ELSE [keyName |-> "", exists |-> FALSE]

\* The keys a config holds.
RegisteredKeys(c) ==
    UNION {{Key(ty, n) : n \in DOMAIN c[ty]} : ty \in Types}

\* Mutant of LoadStoreMaps: the fallback is stored whatever the environment holds.
LoadStoreFallback(c, e, k, fallback) ==
    [c EXCEPT ![KeyType(k)] = MapStore(@, KeyName(k), fallback)]

\* Mutant of LoadStoreMaps: the map is made anew with the loaded key alone.
LoadStoreFresh(c, e, k, fallback) ==
    [c EXCEPT ![KeyType(k)] = MapStore(EmptyMap, KeyName(k), EnvValue(e, k, fallback))]

\* Mutant of LoadStoreMaps: the name is registered under every type.
LoadStoreEveryType(c, e, k, fallback) ==
    [ty \in Types |->
        IF ty = KeyType(k) THEN MapStore(c[ty], KeyName(k), EnvValue(e, k, fallback))
        ELSE IF KeyName(k) \in DOMAIN c[ty] THEN c[ty]
        ELSE MapStore(c[ty], KeyName(k), ZeroValue(ty))]

\* Load's type switch: the environment reader's value is stored under the key
\* in the map of the key's type.
LoadStoreMaps(c, e, k, fallback) ==
    [c EXCEPT ![KeyType(k)] = MapStore(@, KeyName(k), EnvValue(e, k, fallback))]

\* Mutant of WriteCopyMaps: the map of the type is replaced by the values.
WriteCopyReplace(c, ty, values) == [c EXCEPT ![ty] = values]

\* Mutant of WriteCopyMaps: an entry the map already holds is kept.
WriteCopyKeep(c, ty, values) ==
    [c EXCEPT ![ty] = MapsCopy(values, @)]

\* Write's type switch: the values are copied into the map of their type.
WriteCopyMaps(c, ty, values) ==
    [c EXCEPT ![ty] = MapsCopy(@, values)]

\* The order of the maps.Copy calls of Merge.
TypeOrder ==
    <<"string", "int", "int8", "int16", "int32", "int64",
      "uint", "uint8", "uint16", "uint32", "uint64", "uintptr",
      "bytes", "runes", "float32", "float64", "bool">>
TypeIndex(ty) == CHOOSE i \in DOMAIN TypeOrder : TypeOrder[i] = ty

\* Mutant of MergeCopyEntry: an entry the destination holds is kept.
MergeCopyEntryKeep(dst, src, k) ==
    IF KeyName(k) \in DOMAIN dst[KeyType(k)] THEN dst
    ELSE [dst EXCEPT ![KeyType(k)] = MapStore(@, KeyName(k), src[KeyType(k)][KeyName(k)])]

\* maps.Copy(merged.regT, c.regT) is the loop "for k, v := range src
\* { dst[k] = v }": one entry of the source is stored in the destination.
MergeCopyEntry(dst, src, k) ==
    [dst EXCEPT ![KeyType(k)] = MapStore(@, KeyName(k), src[KeyType(k)][KeyName(k)])]

\* The entries of the source that the maps.Copy loops have yet to visit, and
\* those a loop can visit next: the maps are copied in the order of the calls.
ToCopy(src, copied) == RegisteredKeys(src) \ copied
NextToCopy(src, copied) ==
    {k \in ToCopy(src, copied) :
        \A j \in ToCopy(src, copied) : TypeIndex(KeyType(k)) <= TypeIndex(KeyType(j))}


(***************************************************************************)
(* sync.RWMutex.  A writer that has called Lock (wOwner) keeps later RLock *)
(* and Lock calls waiting, and itself waits until the read locks taken     *)
(* before its call are released.                                           *)
(***************************************************************************)
NoReaders(r) == \A t \in Threads : readers[r][t] = 0
CanRLock(r) == wOwner[r] = NoThread
CanLock(r) == wOwner[r] = NoThread
\* Mutant of HoldsLock: the writer does not wait for the readers to leave.
HoldsLockAmongReaders(t, r) == wOwner[r] = t
HoldsLock(t, r) == wOwner[r] = t /\ NoReaders(r)
\* Mutant of RLocked: the read lock is not taken.
RLockedNot(rd, r, t) == rd
RLocked(rd, r, t) == [rd EXCEPT ![r][t] = @ + 1]
RUnlocked(rd, r, t) == [rd EXCEPT ![r][t] = @ - 1]

NoKey == <<"", "">>
IdleOp ==
    [kind |-> "none", cfg |-> 0, key |-> NoKey, vty |-> "", keys |-> << >>,
     i |-> 0, missing |-> << >>, found |-> FALSE, keyName |-> "",
     srcs |-> << >>, merged |-> 0, copied |-> {}, err |-> ""]
NoObs == [snaps |-> {}, doneAtCall |-> {}, heldAtCall |-> {}]

Init ==
    /\ env = [n \in Names |-> IF n = "A" THEN SetTo(<<"1">>) ELSE Unset]
    /\ regs = [r \in RegIds |-> New]
    /\ alloc = {1}
    /\ published = {1}
    /\ wOwner = [r \in RegIds |-> NoThread]
    /\ readers = [r \in RegIds |-> [t \in Threads |-> 0]]
    /\ pc = [t \in Threads |-> "idle"]
    /\ op = [t \in Threads |-> IdleOp]
    /\ nops = 0
    /\ last = [r \in RegIds |-> << >>]
    /\ completed = [r \in RegIds |-> {}]
    /\ obs = [t \in Threads |-> NoObs]

\* History: what the last operation naming a key was given: a Load its
\* fallback, a Write its value.
ByLoad(fallback) == [load |-> TRUE, arg |-> fallback]
ByWrite(value) == [load |-> FALSE, arg |-> value]

\* History: every Exists call in progress on r sees the keys r now holds.
Observed(r, c) ==
    [t \in Threads |->
        IF op[t].kind = "Exists" /\ op[t].cfg = r
        THEN [obs[t] EXCEPT !.snaps = @ \cup {RegisteredKeys(c)}]
        ELSE obs[t]]

Return(t) ==
    /\ pc' = [pc EXCEPT ![t] = "idle"]
    /\ op' = [op EXCEPT ![t] = IdleOp]
    /\ obs' = [obs EXCEPT ![t] = NoObs]

(***************************************************************************)
(* Load(config, key, fallback)                                             *)
(***************************************************************************)
LoadCall(t, r, k, fallback) ==
    /\ pc[t] = "idle"
    /\ r \in published
    /\ pc' = [pc EXCEPT ![t] = "load_lock"]
    /\ op' = [op EXCEPT ![t] = [IdleOp EXCEPT !.kind = "Load", !.cfg = r, !.key = k]
                                 @@ [val |-> fallback]]
    /\ nops' = nops + 1
    /\ UNCHANGED <<env, regs, alloc, published, wOwner, readers, last, completed, obs>>

\* config.rwLock.Lock()
LoadLock(t) ==
    /\ pc[t] = "load_lock"
    /\ CanLock(op[t].cfg)
    /\ wOwner' = [wOwner EXCEPT ![op[t].cfg] = t]
    /\ pc' = [pc EXCEPT ![t] = "load_store"]
    /\ UNCHANGED <<env, regs, alloc, published, readers, op, nops, last, completed, obs>>

\* The type switch, inside the critical section: the environment is read and
\* the value stored.
LoadStore(t) ==
    /\ pc[t] = "load_store"
    /\ HoldsLock(t, op[t].cfg)
    /\ LET r == op[t].cfg
           c == LoadStoreMaps(regs[r], env, op[t].key, op[t].val)
       IN  /\ regs' = [regs EXCEPT ![r] = c]
           /\ last' = [last EXCEPT ![r] = MapStore(@, op[t].key, ByLoad(op[t].val))]
           /\ obs' = Observed(r, c)
    /\ pc' = [pc EXCEPT ![t] = "load_unlock"]
    /\ UNCHANGED <<env, alloc, published, wOwner, readers, op, nops, completed>>

\* defer config.rwLock.Unlock(), and the return.
LoadUnlock(t) ==
    /\ pc[t] = "load_unlock"
    /\ wOwner' = [wOwner EXCEPT ![op[t].cfg] = NoThread]
    /\ completed' = [completed EXCEPT ![op[t].cfg] = @ \cup {op[t].key}]
    /\ pc' = [pc EXCEPT ![t] = "idle"]
    /\ op' = [op EXCEPT ![t] = IdleOp]
    /\ UNCHANGED <<env, regs, alloc, published, readers, nops, last, obs>>

(***************************************************************************)
(* The typed getters: c.String(key), ..., c.Bool(key)                      *)
(***************************************************************************)
GetCall(t, r, k) ==
    /\ pc[t] = "idle"
    /\ r \in published
    /\ pc' = [pc EXCEPT ![t] = "get_rlock"]
    /\ op' = [op EXCEPT ![t] = [IdleOp EXCEPT !.kind = "Get", !.cfg = r, !.key = k]]
    /\ nops' = nops + 1
    /\ UNCHANGED <<env, regs, alloc, published, wOwner, readers, last, completed, obs>>

\* c.rwLock.RLock()
GetRLock(t) ==
    /\ pc[t] = "get_rlock"
    /\ CanRLock(op[t].cfg)
    /\ readers' = RLocked(readers, op[t].cfg, t)
    /\ pc' = [pc EXCEPT ![t] = "get_read"]
    /\ UNCHANGED <<env, regs, alloc, published, wOwner, op, nops, last, completed, obs>>

\* if value, exists := c.regT[key]; exists { return value }; return zero
GetRead(t) ==
    /\ pc[t] = "get_read"
    /\ op' = [op EXCEPT ![t] = @ @@ [val |-> Lookup(regs[op[t].cfg], op[t].key)]]
    /\ pc' = [pc EXCEPT ![t] = "get_runlock"]
    /\ UNCHANGED <<env, regs, alloc, published, wOwner, readers, nops, last, completed, obs>>

\* defer c.rwLock.RUnlock(), and the return.
GetRUnlock(t) ==
    /\ pc[t] = "get_runlock"
    /\ readers' = RUnlocked(readers, op[t].cfg, t)
    /\ Return(t)
    /\ UNCHANGED <<env, regs, alloc, published, wOwner, nops, last, completed>>

(***************************************************************************)
(* Write(cfg, values)                                                      *)
(***************************************************************************)
\* A Config interface value: a registry id is a *config; NilConfig is the nil
\* interface; ForeignConfig is another implementation of Config; NilPtrConfig
\* is the interface holding (*config)(nil), which is not equal to nil and
\* passes the assertion cfg.(*config).
NilConfig == 0
ForeignConfig == -1
NilPtrConfig == -2
\* The ways of passing no registry: the nil interface, and the nil pointer of
\* the registry's type.
NullConfigs == {NilConfig, NilPtrConfig}

WriteCall(t, cfg, ty, values) ==
    /\ pc[t] = "idle"
    /\ cfg \in published \cup {NilConfig, ForeignConfig, NilPtrConfig}
    /\ op' = [op EXCEPT ![t] =
                 [IdleOp EXCEPT !.kind = "Write", !.cfg = cfg, !.vty = ty,
                                !.err = IF cfg = NilConfig
                                        THEN "Config cannot be nil"
                                        ELSE IF cfg = ForeignConfig
                                        THEN "invalid configuration type, expected *ConfigImpl"
                                        ELSE ""]
                 @@ [values |-> values]]
    /\ pc' = [pc EXCEPT ![t] = IF cfg \in RegIds \cup {NilPtrConfig}
                                THEN "write_lock" ELSE "write_ret"]
    /\ nops' = nops + 1
    /\ UNCHANGED <<env, regs, alloc, published, wOwner, readers, last, completed, obs>>

\* typecastCfg.rwLock.Lock()
WriteLock(t) ==
    /\ pc[t] = "write_lock"
    /\ op[t].cfg \in RegIds
    /\ CanLock(op[t].cfg)
    /\ wOwner' = [wOwner EXCEPT ![op[t].cfg] = t]
    /\ pc' = [pc EXCEPT ![t] = "write_copy"]
    /\ UNCHANGED <<env, regs, alloc, published, readers, op, nops, last, completed, obs>>

\* typecastCfg.rwLock.Lock() with typecastCfg = nil: the field of a nil
\* pointer is evaluated, a run-time panic, before any defer is registered.
NilDereference == "invalid memory address or nil pointer dereference"
WritePanic(t) ==
    /\ pc[t] = "write_lock"
    /\ op[t].cfg = NilPtrConfig
    /\ op' = [op EXCEPT ![t].err = NilDereference]
    /\ pc' = [pc EXCEPT ![t] = "panicked"]
    /\ UNCHANGED <<env, regs, alloc, published, wOwner, readers, nops, last, completed, obs>>

\* A panic leaves the call: the caller receives no result.
Unwind(t) ==
    /\ pc[t] = "panicked"
    /\ Return(t)
    /\ UNCHANGED <<env, regs, alloc, published, wOwner, readers, nops, last, completed>>

\* The type switch: maps.Copy into the map of the values' type.
WriteCopy(t) ==
    /\ pc[t] = "write_copy"
    /\ HoldsLock(t, op[t].cfg)
    /\ LET r == op[t].cfg
           c == WriteCopyMaps(regs[r], op[t].vty, op[t].values)
       IN  /\ regs' = [regs EXCEPT ![r] = c]
           /\ last' = [last EXCEPT ![r] =
                          [k \in (DOMAIN @) \cup {Key(op[t].vty, n) : n \in DOMAIN op[t].values} |->
                              IF KeyType(k) = op[t].vty /\ KeyName(k) \in DOMAIN op[t].values
                              THEN ByWrite(op[t].values[KeyName(k)]) ELSE @[k]]]
           /\ obs' = Observed(r, c)
    /\ pc' = [pc EXCEPT ![t] = "write_unlock"]
    /\ UNCHANGED <<env, alloc, published, wOwner, readers, op, nops, completed>>

\* defer typecastCfg.rwLock.Unlock(), and return nil.
WriteUnlock(t) ==
    /\ pc[t] = "write_unlock"
    /\ wOwner' = [wOwner EXCEPT ![op[t].cfg] = NoThread]
    /\ completed' = [completed EXCEPT ![op[t].cfg] =
                        @ \cup {Key(op[t].vty, n) : n \in DOMAIN op[t].values}]
    /\ pc' = [pc EXCEPT ![t] = "idle"]
    /\ op' = [op EXCEPT ![t] = IdleOp]
    /\ UNCHANGED <<env, regs, alloc, published, readers, nops, last, obs>>

\* return errors.New(...): no lock was taken.
WriteFail(t) ==
    /\ pc[t] = "write_ret"
    /\ Return(t)
    /\ UNCHANGED <<env, regs, alloc, published, wOwner, readers, nops, last, completed>>

(***************************************************************************)
(* c.Exists(keys...) and c.checkKey(key)                                   *)
(***************************************************************************)
\* Mutant of AppendMissing: a name already listed is not listed again.
AppendMissingOnce(missing, keyName, ok) ==
    IF ok \/ (\E i \in DOMAIN missing : missing[i] = keyName) THEN missing
    ELSE Append(missing, keyName)

\* if keyName, ok := c.checkKey(key); !ok { missingKeys = append(...) }
AppendMissing(missing, keyName, ok) ==
    IF ok THEN missing ELSE Append(missing, keyName)

\* Mutant of ExistsResult: the error is returned for an empty list too.
ExistsResultAlways(missing) ==
    IF Len(missing) >= 0 THEN "missing configuration variables" ELSE ""

\* The error Exists returns: MissingVariableError{Keys: missingKeys}, which
\* unwraps to ErrMissingVariable, or nil ("").
ErrMissingVariable == "missing configuration variables"
ExistsResult(missing) ==
    IF Len(missing) > 0 THEN ErrMissingVariable ELSE ""

ExistsCall(t, r, keys) ==
    /\ pc[t] = "idle"
    /\ r \in published
    /\ op' = [op EXCEPT ![t] =
                 [IdleOp EXCEPT !.kind = "Exists", !.cfg = r, !.keys = keys, !.i = 1,
                                !.err = ExistsResult(<< >>)]]
    /\ pc' = [pc EXCEPT ![t] = IF Len(keys) = 0 THEN "exists_ret" ELSE "ck_rlock"]
    /\ obs' = [obs EXCEPT ![t] = [snaps |-> {RegisteredKeys(regs[r])},
                                  doneAtCall |-> completed[r],
                                  heldAtCall |-> RegisteredKeys(regs[r])]]
    /\ nops' = nops + 1
    /\ UNCHANGED <<env, regs, alloc, published, wOwner, readers, last, completed>>

\* checkKey: c.rwLock.RLock()
CheckKeyRLock(t) ==
    /\ pc[t] = "ck_rlock"
    /\ CanRLock(op[t].cfg)
    /\ readers' = RLocked(readers, op[t].cfg, t)
    /\ pc' = [pc EXCEPT ![t] = "ck_read"]
    /\ UNCHANGED <<env, regs, alloc, published, wOwner, op, nops, last, completed, obs>>

\* checkKey: the type switch.
CheckKeyRead(t) ==
    /\ pc[t] = "ck_read"
    /\ LET res == CheckKeyResult(regs[op[t].cfg], op[t].keys[op[t].i])
       IN  op' = [op EXCEPT ![t].found = res.exists, ![t].keyName = res.keyName]
    /\ pc' = [pc EXCEPT ![t] = "ck_runlock"]
    /\ UNCHANGED <<env, regs, alloc, published, wOwner, readers, nops, last, completed, obs>>

\* checkKey: defer c.rwLock.RUnlock() and return; Exists appends the name of
\* a missing key and goes on to the next key, or to its return.
CheckKeyRUnlock(t) ==
    /\ pc[t] = "ck_runlock"
    /\ readers' = RUnlocked(readers, op[t].cfg, t)
    /\ LET missing == AppendMissing(op[t].missing, op[t].keyName, op[t].found)
           more == op[t].i < Len(op[t].keys)
       IN  /\ op' = [op EXCEPT ![t].missing = missing, ![t].i = @ + 1,
                               ![t].err = IF more THEN "" ELSE ExistsResult(missing)]
           /\ pc' = [pc EXCEPT ![t] = IF more THEN "ck_rlock" ELSE "exists_ret"]
    /\ UNCHANGED <<env, regs, alloc, published, wOwner, nops, last, completed, obs>>

\* The return of Exists: op[t].err and op[t].missing are the error and its Keys.
ExistsReturn(t) ==
    /\ pc[t] = "exists_ret"
    /\ Return(t)
    /\ UNCHANGED <<env, regs, alloc, published, wOwner, readers, nops, last, completed>>

(***************************************************************************)
(* Merge(cfgs...)                                                          *)
(***************************************************************************)
\* Mutant of FreshRegistry: the first registry is used again.
FirstRegistry(al) == 1

\* New() returns a pointer to a new config: a registry that is none of the
\* allocated ones.
FreshRegistry(al) == CHOOSE r \in RegIds \ al : \A q \in RegIds \ al : r <= q

\* merged := New(); merged.rwLock.Lock(); defer merged.rwLock.Unlock()
MergeCall(t, srcs) ==
    /\ pc[t] = "idle"
    /\ \A i \in 1..Len(srcs) :
           srcs[i] \in published \cup {NilConfig, ForeignConfig, NilPtrConfig}
    /\ alloc # RegIds
    /\ LET m == FreshRegistry(alloc)
       IN  /\ alloc' = alloc \cup {m}
           /\ regs' = [regs EXCEPT ![m] = New]
           /\ wOwner' = [wOwner EXCEPT ![m] = t]
           /\ op' = [op EXCEPT ![t] =
                        [IdleOp EXCEPT !.kind = "Merge", !.srcs = srcs, !.merged = m,
                                       !.i = 1]]
    /\ pc' = [pc EXCEPT ![t] = IF Len(srcs) = 0 THEN "merge_defer" ELSE "merge_rlock"]
    /\ nops' = nops + 1
    /\ UNCHANGED <<env, published, readers, last, completed, obs>>

\* if c, ok := cfg.(*config); ok { c.rwLock.RLock(); defer c.rwLock.RUnlock()
MergeRLock(t) ==
    /\ pc[t] = "merge_rlock"
    /\ op[t].srcs[op[t].i] \in RegIds
    /\ CanRLock(op[t].srcs[op[t].i])
    /\ readers' = RLocked(readers, op[t].srcs[op[t].i], t)
    /\ pc' = [pc EXCEPT ![t] = "merge_copy"]
    /\ UNCHANGED <<env, regs, alloc, published, wOwner, op, nops, last, completed, obs>>

\* The seventeen maps.Copy calls: one entry of the source is copied.
MergeCopy(t) ==
    /\ pc[t] = "merge_copy"
    /\ \E k \in NextToCopy(regs[op[t].srcs[op[t].i]], op[t].copied) :
           /\ regs' = [regs EXCEPT ![op[t].merged] =
                          MergeCopyEntry(@, regs[op[t].srcs[op[t].i]], k)]
           /\ op' = [op EXCEPT ![t].copied = @ \cup {k}]
    /\ UNCHANGED <<env, alloc, published, wOwner, readers, pc, nops, last, completed, obs>>

\* The last maps.Copy has returned: the next source, or the end of the loop.
MergeNextSource(t) ==
    /\ pc[t] = "merge_copy"
    /\ ToCopy(regs[op[t].srcs[op[t].i]], op[t].copied) = {}
    /\ op' = [op EXCEPT ![t].i = @ + 1, ![t].copied = {}]
    /\ pc' = [pc EXCEPT ![t] = IF op[t].i = Len(op[t].srcs) THEN "merge_defer" ELSE "merge_rlock"]
    /\ UNCHANGED <<env, regs, alloc, published, wOwner, readers, nops, last, completed, obs>>

\* else { panic("unsupported config type") }, and the panic of c.rwLock.RLock()
\* with c = nil: the deferred calls run before the panic leaves the call.
UnsupportedConfig == "unsupported config type"
MergePanic(t) ==
    /\ pc[t] = "merge_rlock"
    /\ op[t].srcs[op[t].i] \notin RegIds
    /\ op' = [op EXCEPT ![t].err = IF op[t].srcs[op[t].i] = NilPtrConfig
                                    THEN NilDereference ELSE UnsupportedConfig]
    /\ pc' = [pc EXCEPT ![t] = "merge_defer"]
    /\ UNCHANGED <<env, regs, alloc, published, wOwner, readers, nops, last, completed, obs>>

\* Mutant of MergeRUnlock: the deferred call leaves the read lock held.
MergeRUnlockSkip(t) ==
    /\ pc[t] = "merge_defer"
    /\ op[t].i > 1
    /\ op' = [op EXCEPT ![t].i = @ - 1]
    /\ UNCHANGED <<env, regs, alloc, published, wOwner, readers, pc, nops, last, completed, obs>>

\* At return the deferred calls run, last deferred first: the RUnlock of the
\* sources in reverse order (i - 1 are still held) ...
MergeRUnlock(t) ==
    /\ pc[t] = "merge_defer"
    /\ op[t].i > 1
    /\ readers' = RUnlocked(readers, op[t].srcs[op[t].i - 1], t)
    /\ op' = [op EXCEPT ![t].i = @ - 1]
    /\ UNCHANGED <<env, regs, alloc, published, wOwner, pc, nops, last, completed, obs>>

\* Mutant of MergeResult: the caller receives merged after a panic too.
MergeResultAlways(pub, merged, err) == pub \cup {merged}

\* The registries callers hold after Merge: return merged, unless it panicked.
MergeResult(pub, merged, err) == IF err = "" THEN pub \cup {merged} ELSE pub

\* ... and then merged.rwLock.Unlock(); the caller receives merged, or the
\* panic goes on.
MergeReturn(t) ==
    /\ pc[t] = "merge_defer"
    /\ op[t].i <= 1
    /\ wOwner' = [wOwner EXCEPT ![op[t].merged] = NoThread]
    /\ published' = MergeResult(published, op[t].merged, op[t].err)
    /\ IF op[t].err = ""
       THEN Return(t)
       ELSE /\ pc' = [pc EXCEPT ![t] = "panicked"]
            /\ UNCHANGED <<op, obs>>
    /\ UNCHANGED <<env, regs, alloc, readers, nops, last, completed>>

(***************************************************************************)
(* The steps of a call in progress.                                        *)
(***************************************************************************)
Step(t) ==
    \/ LoadLock(t) \/ LoadStore(t) \/ LoadUnlock(t)
    \/ WriteLock(t) \/ WriteCopy(t) \/ WriteUnlock(t) \/ WriteFail(t)
    \/ WritePanic(t) \/ Unwind(t)
    \/ GetRLock(t) \/ GetRead(t) \/ GetRUnlock(t)
    \/ CheckKeyRLock(t) \/ CheckKeyRead(t) \/ CheckKeyRUnlock(t) \/ ExistsReturn(t)
    \/ MergeRLock(t) \/ MergeCopy(t) \/ MergeNextSource(t) \/ MergePanic(t) \/ MergeRUnlock(t)
    \/ MergeReturn(t)

Budget == nops < MaxOps

\* The source lists of a Merge call: up to two of the registries held.
SourceLists(pub) ==
    {<< >>} \cup {<<a>> : a \in pub} \cup {<<a, b>> : a \in pub, b \in pub}
    \cup {<<a, NilConfig>> : a \in pub} \cup {<<ForeignConfig, a>> : a \in pub}
    \cup {<<NilPtrConfig>>}

(***************************************************************************)
(* The concurrent specification: two threads call the operations on the    *)
(* registries they hold, starting from one registry made by New().         *)
(***************************************************************************)
kA == Key("int", "A")
kB == Key("int", "B")
ConcKeys == {kA, kB}
ConcFallbacks == {5}
ConcWrites == {("A" :> 7) @@ ("B" :> 7), ("B" :> 0)}
ConcKeyLists == {<<kA, kB>>, <<kB>>}
ConcSourceLists(pub) ==
    {<<a>> : a \in pub} \cup {<<a, b>> : a \in pub, b \in pub}
    \cup {<<a, NilConfig>> : a \in pub}

CallLoad(t) ==
    Budget /\ \E r \in published, k \in ConcKeys, f \in ConcFallbacks : LoadCall(t, r, k, f)
CallWrite(t) ==
    Budget /\ \/ \E r \in published, v \in ConcWrites : WriteCall(t, r, "int", v)
              \/ \E r \in NullConfigs : WriteCall(t, r, "int", ("B" :> 0))
CallGet(t) ==
    Budget /\ \E r \in published, k \in ConcKeys : GetCall(t, r, k)
CallExists(t) ==
    Budget /\ \E r \in published, ks \in ConcKeyLists : ExistsCall(t, r, ks)
CallMerge(t) ==
    Budget /\ \E ss \in ConcSourceLists(published) : MergeCall(t, ss)

Next ==
    \E t \in Threads :
        \/ CallLoad(t) \/ CallWrite(t) \/ CallGet(t) \/ CallExists(t) \/ CallMerge(t)
        \/ Step(t)

Spec == Init /\ [][Next]_vars

(***************************************************************************)
(* The sequential specification: one caller and one registry, with an      *)
(* environment drawn from SeqEnvs and keys of several types.               *)
(***************************************************************************)
SeqTexts == {<<"1">>, <<"1", "2", "9">>, <<"x">>}
SeqEnvs == {[n \in Names |-> IF n = "A" THEN v ELSE Unset] :
               v \in {Unset} \cup {SetTo(x) : x \in SeqTexts}}

kS == Key("string", "A")
k8 == Key("int8", "A")
kU == Key("uint8", "A")
k8B == Key("int8", "B")
SeqKeys == {kS, k8, kU, k8B}
SeqLoadKeys == SeqKeys \cup {Key("bool", "A"), Key("float64", "A")}

\* The fallbacks of a Load: the zero value of the type and another value.
Fallbacks(ty) ==
    IF ty \in TextTypes THEN {<< >>, <<"d">>}
    ELSE IF ty = "bool" THEN {FALSE, TRUE}
    ELSE {0, 5}

SeqWrites ==
    {[ty |-> "int8", values |-> ("A" :> 7)],
     [ty |-> "int8", values |-> ("A" :> 0) @@ ("B" :> 7)],
     [ty |-> "string", values |-> ("A" :> <<"w">>)]}

pA == PlainString("A")
SeqKeyLists ==
    {<< >>} \cup {<<k>> : k \in SeqKeys} \cup {<<k, j>> : k \in SeqKeys, j \in SeqKeys}
    \cup {<<k8B, kS, k8B>>, <<k8, k8B, kS>>}
    \cup {<<pA>>, <<kS, pA>>, <<pA, k8B, pA>>}

SeqInit ==
    /\ env \in SeqEnvs
    /\ regs = [r \in RegIds |-> New]
    /\ alloc = {1}
    /\ published = {1}
    /\ wOwner = [r \in RegIds |-> NoThread]
    /\ readers = [r \in RegIds |-> [t \in Threads |-> 0]]
    /\ pc = [t \in Threads |-> "idle"]
    /\ op = [t \in Threads |-> IdleOp]
    /\ nops = 0
    /\ last = [r \in RegIds |-> << >>]
    /\ completed = [r \in RegIds |-> {}]
    /\ obs = [t \in Threads |-> NoObs]

SeqLoad ==
    Budget /\ \E r \in published, k \in SeqLoadKeys :
                 \E f \in Fallbacks(KeyType(k)) : LoadCall("t1", r, k, f)
SeqWrite ==
    Budget /\ \E r \in published \cup {NilConfig, ForeignConfig, NilPtrConfig},
                    w \in SeqWrites :
                 WriteCall("t1", r, w.ty, w.values)
SeqGet ==
    Budget /\ \E r \in published, k \in SeqLoadKeys : GetCall("t1", r, k)
SeqExists ==
    Budget /\ \E r \in published, ks \in SeqKeyLists : ExistsCall("t1", r, ks)

SeqNext ==
    \/ SeqLoad \/ SeqWrite \/ SeqGet \/ SeqExists
    \/ LoadLock("t1") \/ LoadStore("t1") \/ LoadUnlock("t1")
    \/ WriteLock("t1") \/ WriteCopy("t1") \/ WriteUnlock("t1") \/ WriteFail("t1")
    \/ WritePanic("t1") \/ Unwind("t1")
    \/ GetRLock("t1") \/ GetRead("t1") \/ GetRUnlock("t1")
    \/ CheckKeyRLock("t1") \/ CheckKeyRead("t1") \/ CheckKeyRUnlock("t1")
    \/ ExistsReturn("t1")

SeqSpec == SeqInit /\ [][SeqNext]_vars

(***************************************************************************)
(* The merge specification: one caller and two registries made by New(),   *)
(* with the arguments of the concurrent specification.                     *)
(***************************************************************************)
MergeInit ==
    /\ env = [n \in Names |-> IF n = "A" THEN SetTo(<<"1">>) ELSE Unset]
    /\ regs = [r \in RegIds |-> New]
    /\ alloc = {1, 2}
    /\ published = {1, 2}
    /\ wOwner = [r \in RegIds |-> NoThread]
    /\ readers = [r \in RegIds |-> [t \in Threads |-> 0]]
    /\ pc = [t \in Threads |-> "idle"]
    /\ op = [t \in Threads |-> IdleOp]
    /\ nops = 0
    /\ last = [r \in RegIds |-> << >>]
    /\ completed = [r \in RegIds |-> {}]
    /\ obs = [t \in Threads |-> NoObs]

MergeOf ==
    Budget /\ \E ss \in SourceLists(published) : MergeCall("t1", ss)

MergeNext ==
    \/ CallLoad("t1") \/ CallWrite("t1") \/ CallGet("t1") \/ CallExists("t1")
    \/ MergeOf
    \/ Step("t1")

MergeSpec == MergeInit /\ [][MergeNext]_vars

(***************************************************************************)
(* Fallback(value, fallback), and the specification that calls it: one     *)
(* caller, a registry that holds a key or none.                            *)
(***************************************************************************)
\* Mutant of Fallback: the value is returned whatever it is.
FallbackNever(ty, value, fallback) == value

\* var emptyValue T; if value == emptyValue { return fallback }; return value
Fallback(ty, value, fallback) ==
    IF value = ZeroValue(ty) THEN fallback ELSE value

FallbackCall(t, ty, value, fallback) ==
    /\ pc[t] = "idle"
    /\ op' = [op EXCEPT ![t] = [IdleOp EXCEPT !.kind = "Fallback", !.vty = ty]
                               @@ [value |-> value, fallback |-> fallback,
                                   val |-> Fallback(ty, value, fallback)]]
    /\ pc' = [pc EXCEPT ![t] = "fallback_ret"]
    /\ nops' = nops + 1
    /\ UNCHANGED <<env, regs, alloc, published, wOwner, readers, last, completed, obs>>

\* The return of Fallback: op[t].val is the result.
FallbackReturn(t) ==
    /\ pc[t] = "fallback_ret"
    /\ Return(t)
    /\ UNCHANGED <<env, regs, alloc, published, wOwner, readers, nops, last, completed>>

\* The arguments of Fallback: the zero value of the type, and others.
FallbackValues(ty) ==
    IF ty = "string" THEN {<< >>, <<"d">>, <<"w">>}
    ELSE IF ty = "bool" THEN {FALSE, TRUE}
    ELSE IF ty = "int8" THEN {-128, -1, 0, 5, 127}
    ELSE {0, 5, 255}
FallbackTypes == {"string", "bool", "int8", "uint8"}

FallbackInit ==
    /\ env = [n \in Names |-> Unset]
    /\ regs \in {[r \in RegIds |-> New],
                 [r \in RegIds |-> IF r = 1 THEN WriteCopyMaps(New, "int8", ("A" :> 7)) ELSE New]}
    /\ alloc = {1}
    /\ published = {1}
    /\ wOwner = [r \in RegIds |-> NoThread]
    /\ readers = [r \in RegIds |-> [t \in Threads |-> 0]]
    /\ pc = [t \in Threads |-> "idle"]
    /\ op = [t \in Threads |-> IdleOp]
    /\ nops = 0
    /\ last = [r \in RegIds |-> << >>]
    /\ completed = [r \in RegIds |-> {}]
    /\ obs = [t \in Threads |-> NoObs]

FallbackOf ==
    Budget /\ \E ty \in FallbackTypes :
                 \E v \in FallbackValues(ty), f \in FallbackValues(ty) :
                     FallbackCall("t1", ty, v, f)

FallbackNext == FallbackOf \/ FallbackReturn("t1")

FallbackSpec == FallbackInit /\ [][FallbackNext]_vars

(***************************************************************************)
(* The claims.                                                             *)
(***************************************************************************)
InCall(t) == pc[t] # "idle"

\* A thread at a lock operation that cannot proceed in this state.
Waiting(t) ==
    \/ pc[t] \in {"load_lock", "write_lock"} /\ op[t].cfg \in RegIds /\ ~CanLock(op[t].cfg)
    \/ pc[t] \in {"load_store", "write_copy"} /\ ~HoldsLock(t, op[t].cfg)
    \/ pc[t] \in {"get_rlock", "ck_rlock"} /\ ~CanRLock(op[t].cfg)
    \/ pc[t] = "merge_rlock" /\ op[t].srcs[op[t].i] \in RegIds
                             /\ ~CanRLock(op[t].srcs[op[t].i])

Elems(q) == {q[i] : i \in DOMAIN q}

\* The names of the keys of a list that a config does not hold, in the
\* order of the list.
RECURSIVE UnregisteredNames(_, _)
UnregisteredNames(keys, c) ==
    IF Len(keys) = 0 THEN << >>
    ELSE LET rest == UnregisteredNames(SubSeq(keys, 1, Len(keys) - 1), c)
             k == keys[Len(keys)]
         IN  IF k \in RegisteredKeys(c) THEN rest ELSE Append(rest, KeyName(k))

\* C1: the keys an Exists call reports missing are those of its arguments
\* that are unregistered in one single state the registry was in during the
\* call.
C1_ExistsLinearizable ==
    \A t \in Threads :
        pc[t] = "exists_ret" =>
            \E held \in obs[t].snaps :
                Elems(op[t].missing) = {KeyName(k) : k \in Elems(op[t].keys) \ held}

\* C2: no deadlock: whenever calls are in progress, one of them can take a
\* step (a call that waits, waits for a call in progress).
C2_NoDeadlock ==
    (\E t \in Threads : InCall(t)) => (\E t \in Threads : InCall(t) /\ ~Waiting(t))

\* C3: for a key (a Variable[T]) never passed to Load or Write on the registry, the getter
\* returns the zero value of the key's type, and Exists on that key alone
\* returns the missing-variable error whose Keys are exactly the key's name.
C3_NeverRegistered ==
    \A t \in Threads :
        /\ (pc[t] = "get_runlock" /\ op[t].key \notin DOMAIN last[op[t].cfg])
               => op[t].val = ZeroValue(KeyType(op[t].key))
        /\ (pc[t] = "exists_ret" /\ Len(op[t].keys) = 1
                /\ KeyType(op[t].keys[1]) \in Types
                /\ op[t].keys[1] \notin DOMAIN last[op[t].cfg])
               => /\ op[t].err = ErrMissingVariable
                  /\ op[t].missing = <<KeyName(op[t].keys[1])>>

\* C3's case: Exists on a key never named, on a registry that holds the same
\* name under another type.
C3_Witness ==
    \E t \in Threads :
        /\ pc[t] = "exists_ret" /\ Len(op[t].keys) = 1
        /\ op[t].keys[1] \notin DOMAIN last[op[t].cfg]
        /\ \E k \in DOMAIN last[op[t].cfg] : KeyName(k) = KeyName(op[t].keys[1])

\* The value the last Load or Write naming k stored in r.
LastValue(r, k) ==
    IF last[r][k].load THEN EnvValue(env, k, last[r][k].arg) ELSE last[r][k].arg

\* C4: last write wins: the getter returns the value stored by the most
\* recent Load or Write that named the key.
C4_LastWriteWins ==
    \A t \in Threads :
        (pc[t] = "get_runlock" /\ op[t].key \in DOMAIN last[op[t].cfg])
            => op[t].val = LastValue(op[t].cfg, op[t].key)

\* C4's case: the getter returns 7 for int8 A after Write {A: 0, B: 7} and
\* then Write {A: 7} (only the former stores 7 under B).
C4_Witness ==
    \E t \in Threads :
        /\ pc[t] = "get_runlock" /\ op[t].key = k8 /\ op[t].val = 7
        /\ Lookup(regs[op[t].cfg], k8B) = 7

\* C5: after Load, the getter returns the parsed value of the variable when
\* it is set and parses as the key's type, and the fallback otherwise; Load
\* reports no error.
C5_LoadThenGet ==
    \A t \in Threads :
        /\ (pc[t] = "get_runlock" /\ op[t].key \in DOMAIN last[op[t].cfg]
                /\ last[op[t].cfg][op[t].key].load)
               => LET var == env[KeyName(op[t].key)]
                      parsed == Parse(KeyType(op[t].key), var.text)
                  IN  op[t].val = IF var.set /\ parsed.ok THEN parsed.v
                                  ELSE last[op[t].cfg][op[t].key].arg
        /\ op[t].kind = "Load" => op[t].err = ""

\* C5's case: the variable is set and parses, and the getter returns the
\* parsed value, which differs from the fallback.
C5_Witness ==
    \E t \in Threads :
        /\ pc[t] = "get_runlock" /\ op[t].key \in DOMAIN last[op[t].cfg]
        /\ last[op[t].cfg][op[t].key].load
        /\ env[KeyName(op[t].key)].set
        /\ Parse(KeyType(op[t].key), env[KeyName(op[t].key)].text).ok
        /\ op[t].val # last[op[t].cfg][op[t].key].arg

\* C6: a key whose Load or Write has returned is registered, whatever value
\* was stored: checkKey finds it, and Exists on it returns no error.
C6_LoadRegisters ==
    /\ \A r \in alloc : \A k \in completed[r] : CheckKeyResult(regs[r], k).exists
    /\ \A t \in Threads :
           (pc[t] = "exists_ret" /\ Len(op[t].keys) = 1
                /\ op[t].keys[1] \in obs[t].doneAtCall)
               => op[t].err = ""

\* C6's case: Exists on a loaded key whose stored value is the zero value.
C6_Witness ==
    \E t \in Threads :
        /\ pc[t] = "exists_ret" /\ Len(op[t].keys) = 1
        /\ op[t].keys[1] \in obs[t].doneAtCall
        /\ last[op[t].cfg][op[t].keys[1]].load
        /\ Lookup(regs[op[t].cfg], op[t].keys[1]) = ZeroValue(KeyType(op[t].keys[1]))

\* C7: the Keys of the error are the names of the unregistered arguments, in
\* the order of the argument list, a name as often as it was passed; with at
\* least one the error is returned (the arguments are keys, Variable[T]).
C7_MissingInOrder ==
    \A t \in Threads :
        (pc[t] = "exists_ret" /\ \A k \in Elems(op[t].keys) : KeyType(k) \in Types) =>
            /\ op[t].missing = UnregisteredNames(op[t].keys, regs[op[t].cfg])
            /\ Len(op[t].missing) >= 1 => op[t].err = ErrMissingVariable

\* C7's case: a missing key passed twice around a registered one.
C7_Witness ==
    \E t \in Threads :
        /\ pc[t] = "exists_ret"
        /\ op[t].keys = <<k8B, kS, k8B>>
        /\ kS \in RegisteredKeys(regs[op[t].cfg])
        /\ op[t].missing = <<"B", "B">>

\* C8: Exists returns no error exactly when every argument is registered in
\* the map of its type; with no argument it returns no error; an error has
\* a non-empty Keys list.
C8_ExistsNilIffAllRegistered ==
    \A t \in Threads :
        pc[t] = "exists_ret" =>
            /\ (op[t].err = "") <=>
                   (\A k \in Elems(op[t].keys) : k \in RegisteredKeys(regs[op[t].cfg]))
            /\ Len(op[t].keys) = 0 => op[t].err = ""
            /\ op[t].err # "" => Len(op[t].missing) > 0

\* C8's case: Exists with no argument on a registry that holds keys.
C8_Witness ==
    \E t \in Threads :
        /\ pc[t] = "exists_ret" /\ Len(op[t].keys) = 0
        /\ RegisteredKeys(regs[op[t].cfg]) # {}

\* The last source of the list that holds name n in its map of type ty.
LastSource(srcs, ty, n) ==
    CHOOSE i \in DOMAIN srcs :
        /\ n \in DOMAIN regs[srcs[i]][ty]
        /\ \A j \in DOMAIN srcs : j > i => n \notin DOMAIN regs[srcs[j]][ty]

\* C9: the registry Merge returns holds a key iff a source holds it, with
\* the value of the last source that holds it; with no source it is empty.
C9_MergeLaterWins ==
    \A t \in Threads :
        pc[t] = "merge_defer" /\ op[t].err = "" =>
            \A ty \in Types :
                /\ DOMAIN regs[op[t].merged][ty] =
                       UNION {DOMAIN regs[op[t].srcs[i]][ty] : i \in DOMAIN op[t].srcs}
                /\ \A n \in DOMAIN regs[op[t].merged][ty] :
                       regs[op[t].merged][ty][n] =
                           regs[op[t].srcs[LastSource(op[t].srcs, ty, n)]][ty][n]

\* C9's case: two different sources, a name both hold with different values
\* and a name only one holds.
C9_Witness ==
    \E t \in Threads :
        /\ pc[t] = "merge_defer" /\ op[t].err = "" /\ Len(op[t].srcs) = 2
        /\ op[t].srcs[1] # op[t].srcs[2]
        /\ LET a == regs[op[t].srcs[1]]["int"]
               b == regs[op[t].srcs[2]]["int"]
           IN  /\ \E n \in (DOMAIN a) \cap (DOMAIN b) : a[n] # b[n]
               /\ (DOMAIN a) \ (DOMAIN b) # {} \/ (DOMAIN b) \ (DOMAIN a) # {}

\* C10: an Exists call naming keys whose Loads had all returned when it was
\* called returns no error.
C10_NoLoadLost ==
    \A t \in Threads :
        (pc[t] = "exists_ret" /\ Elems(op[t].keys) \subseteq obs[t].doneAtCall)
            => op[t].err = ""

\* C10's case: Exists(A, B) after the Loads of A (the variable's value 1) and
\* of B (the fallback 5) have returned.
C10_Witness ==
    \E t \in Threads :
        /\ pc[t] = "exists_ret" /\ op[t].keys = <<kA, kB>>
        /\ {kA, kB} \subseteq obs[t].doneAtCall
        /\ Lookup(regs[op[t].cfg], kA) = 1 /\ Lookup(regs[op[t].cfg], kB) = 5

\* C11: a Write call given a null registry does not panic, and what it
\* returns is an error.
C11_WriteNilReturnsError ==
    \A t \in Threads :
        op[t].kind = "Write" /\ op[t].cfg \in NullConfigs =>
            /\ pc[t] # "panicked"
            /\ pc[t] = "write_ret" => op[t].err # ""

\* Two configs hold the same keys with the same values.
SameContent(c, d) ==
    \A ty \in Types :
        /\ DOMAIN c[ty] = DOMAIN d[ty]
        /\ \A n \in DOMAIN c[ty] : c[ty][n] = d[ty][n]

ValidSources(srcs) == {srcs[i] : i \in DOMAIN srcs} \cap RegIds

\* C12: a Merge call ends its loop without a panic only if every argument
\* is a registry; a Merge call that panicked has given its caller no
\* registry; and no step of a Merge call changes the content of a source.
C12_MergePanicsOnInvalid ==
    /\ [](\A t \in Threads :
            op[t].kind = "Merge" =>
                /\ pc[t] = "merge_defer" =>
                       (op[t].err # "" <=> \E i \in DOMAIN op[t].srcs : op[t].srcs[i] \notin RegIds)
                /\ pc[t] = "panicked" =>
                       /\ op[t].merged \notin published
                       /\ \E i \in DOMAIN op[t].srcs : op[t].srcs[i] \notin RegIds)
    /\ [][\A t \in Threads :
            op[t].kind = "Merge" =>
                \A r \in ValidSources(op[t].srcs) : SameContent(regs'[r], regs[r])]_vars

\* C12's case: a Merge call panicked at its second argument after it had
\* copied a first argument that holds a key.
C12_Witness ==
    \E t \in Threads :
        /\ op[t].kind = "Merge" /\ pc[t] = "panicked"
        /\ Len(op[t].srcs) = 2 /\ op[t].srcs[1] \in RegIds
        /\ RegisteredKeys(regs[op[t].srcs[1]]) # {}
        /\ RegisteredKeys(regs[op[t].merged]) # {}

\* C13: what Fallback returns is its fallback when its value is the zero
\* value of the type, and its value otherwise; a Fallback call changes no
\* registry.
C13_FallbackOnZero ==
    /\ [](\A t \in Threads :
            pc[t] = "fallback_ret" =>
                /\ op[t].value = ZeroValue(op[t].vty) => op[t].val = op[t].fallback
                /\ op[t].value # ZeroValue(op[t].vty) => op[t].val = op[t].value)
    /\ [][\A t \in Threads :
            op[t].kind = "Fallback" \/ op'[t].kind = "Fallback" =>
                \A r \in RegIds : SameContent(regs'[r], regs[r])]_vars

\* C13's case: Fallback was called with the zero value and another fallback,
\* while a registry holds a key.
C13_Witness ==
    \E t \in Threads :
        /\ pc[t] = "fallback_ret"
        /\ op[t].value = ZeroValue(op[t].vty) /\ op[t].fallback # op[t].value
        /\ RegisteredKeys(regs[1]) # {}

\* C14: a Merge call holds at most one read lock: on one source, once.
C14_MergeOneReadLock ==
    \A t \in Threads :
        op[t].kind = "Merge" =>
            /\ Cardinality({r \in RegIds : readers[r][t] > 0}) <= 1
            /\ \A r \in RegIds : readers[r][t] <= 1

\* A Load or Write call is inside its critical section on r: between the
\* return of rwLock.Lock() and rwLock.Unlock().
WriterIn(t, r) ==
    /\ op[t].kind \in {"Load", "Write"} /\ op[t].cfg = r
    /\ \/ pc[t] \in {"load_unlock", "write_unlock"}
       \/ pc[t] \in {"load_store", "write_copy"} /\ HoldsLock(t, r)

\* A getter, a key check of Exists or a source copy of Merge is inside its
\* critical section on r: between rwLock.RLock() and the end of its reading.
ReaderIn(t, r) ==
    \/ pc[t] \in {"get_read", "get_runlock", "ck_read", "ck_runlock"} /\ op[t].cfg = r
    \/ pc[t] = "merge_copy" /\ op[t].srcs[op[t].i] = r

\* C15: while a Load or Write is inside its critical section on a registry,
\* no other call is inside a critical section, writing or reading, on it.
C15_WriterExcludesAll ==
    \A r \in RegIds : \A t \in Threads :
        WriterIn(t, r) =>
            \A u \in Threads \ {t} : ~WriterIn(u, r) /\ ~ReaderIn(u, r)

\* C15's case: a writer is inside its critical section on a registry while
\* another call is at the lock of the same registry.
C15_Witness ==
    \E r \in RegIds : \E t \in Threads : \E u \in Threads \ {t} :
        /\ WriterIn(t, r) /\ pc[t] = "write_unlock"
        /\ pc[u] \in {"get_rlock", "ck_rlock", "load_lock", "merge_rlock"}
        /\ IF pc[u] = "merge_rlock" THEN op[u].srcs[op[u].i] = r ELSE op[u].cfg = r

\* Two readers inside their critical sections on one registry.
ReadersTogether ==
    \E r \in RegIds : \E t \in Threads : \E u \in Threads \ {t} :
        ReaderIn(t, r) /\ ReaderIn(u, r)

\* C16: a Load call that holds the write lock of its registry has already
\* read and parsed the environment value (LoadStore is the step that reads
\* it).
C16_LoadParsesBeforeLock ==
    \A t \in Threads :
        op[t].kind = "Load" /\ HoldsLock(t, op[t].cfg) => pc[t] # "load_store"

\* C17: while a Merge call copies a source, the entries it has taken from
\* that source are entries the source holds now, with the same values: when
\* the last is taken, they are the content of the source at that instant.
C17_MergeSnapshot ==
    \A t \in Threads :
        pc[t] = "merge_copy" =>
            LET src == regs[op[t].srcs[op[t].i]]
                dst == regs[op[t].merged]
            IN  \A k \in op[t].copied :
                    /\ k \in RegisteredKeys(src)
                    /\ k \in RegisteredKeys(dst)
                    /\ dst[KeyType(k)][KeyName(k)] = src[KeyType(k)][KeyName(k)]

\* C17's case: a Merge call has copied one entry of a source and not yet
\* the other, while a Write of several keys to that source is in progress.
C17_Witness ==
    \E t \in Threads : \E u \in Threads \ {t} :
        /\ pc[t] = "merge_copy"
        /\ op[t].copied # {}
        /\ ToCopy(regs[op[t].srcs[op[t].i]], op[t].copied) # {}
        /\ pc[u] = "write_copy" /\ op[u].cfg = op[t].srcs[op[t].i]
        /\ Cardinality(DOMAIN op[u].values) > 1

\* The entry of name n in the map of type ty is the same in two configs:
\* absent in both, or the same value.
EntrySame(c, d, ty, n) ==
    /\ n \in DOMAIN c[ty] <=> n \in DOMAIN d[ty]
    /\ n \in DOMAIN c[ty] => c[ty][n] = d[ty][n]

\* The entries the step a call is about to take may change: the key of a
\* Load at its store, the keys of a Write at its copy, in their registry.
Named(t) ==
    IF pc[t] = "load_store" THEN {<<op[t].cfg, op[t].key>>}
    ELSE IF pc[t] = "write_copy"
    THEN {<<op[t].cfg, Key(op[t].vty, n)>> : n \in DOMAIN op[t].values}
    ELSE {}

\* C18: a step of a Load, Write, getter or Exists call leaves every entry
\* of every registry as it is, except the entries of the keys a Load or a
\* Write names, in the map of their type: in a map that the step changes,
\* every entry whose key is not named is as it was.
C18_Frame ==
    [][\A t \in Threads :
          op[t].kind \in {"Load", "Write", "Get", "Exists"} =>
              \A r \in RegIds : \A ty \in Types :
                  regs'[r][ty] # regs[r][ty] =>
                      \A n \in Names :
                          <<r, Key(ty, n)>> \notin Named(t) =>
                              EntrySame(regs[r], regs'[r], ty, n)]_vars

\* C18's case: a Load has stored a key while its registry holds another
\* key of the same type and a key of the same name and another type.
C18_Witness ==
    \E t \in Threads :
        /\ pc[t] = "load_unlock" /\ op[t].key = k8
        /\ k8B \in RegisteredKeys(regs[op[t].cfg])
        /\ kS \in RegisteredKeys(regs[op[t].cfg])
        /\ kU \notin RegisteredKeys(regs[op[t].cfg])

\* C19: the registry a Merge call fills is none of its sources; a step of
\* a Merge call changes no registry but the one it fills, and a step of a
\* Write or Load call changes no registry but the one it is given: neither
\* the registries merged from it nor the sources it was merged from.
C19_MergedIndependent ==
    /\ [](\A t \in Threads :
            op[t].kind = "Merge" => op[t].merged \notin ValidSources(op[t].srcs))
    /\ [][\A t \in Threads :
            /\ op'[t].kind = "Merge" =>
                   \A r \in RegIds \ {op'[t].merged} : SameContent(regs'[r], regs[r])
            /\ op[t].kind = "Merge" =>
                   \A r \in RegIds \ {op[t].merged} : SameContent(regs'[r], regs[r])
            /\ op[t].kind \in {"Load", "Write"} =>
                   \A r \in RegIds \ {op[t].cfg} : SameContent(regs'[r], regs[r])]_vars

\* C19's case: a Write has changed the value of a key in a registry after a
\* Merge returned a registry with that key: the two values differ.
C19_Witness ==
    \E t \in Threads : \E m \in published \ {1, 2} :
        /\ pc[t] = "write_unlock" /\ op[t].cfg \in {1, 2}
        /\ \E n \in DOMAIN regs[m]["int"] :
               /\ n \in DOMAIN regs[op[t].cfg]["int"]
               /\ regs[m]["int"][n] # regs[op[t].cfg]["int"][n]

\* C20: no step removes a key from a registry; the keys of an Exists call
\* that returns no error are all registered; and an Exists call whose keys
\* were all registered when it was called, as they are once an earlier
\* Exists call on them has returned no error, returns no error.
C20_RegistrationMonotone ==
    /\ [][\A r \in RegIds :
            regs'[r] # regs[r] =>
                RegisteredKeys(regs[r]) \subseteq RegisteredKeys(regs'[r])]_vars
    /\ [](\A t \in Threads :
            pc[t] = "exists_ret" =>
                /\ op[t].err = "" =>
                       Elems(op[t].keys) \subseteq RegisteredKeys(regs[op[t].cfg])
                /\ Elems(op[t].keys) \subseteq obs[t].heldAtCall => op[t].err = "")

\* C20's case: an Exists call on keys registered when it was called returns
\* no error, after a Write or Load of the other thread changed the keys of
\* the registry during the call.
C20_Witness ==
    \E t \in Threads :
        /\ pc[t] = "exists_ret" /\ op[t].err = ""
        /\ Len(op[t].keys) > 0
        /\ Elems(op[t].keys) \subseteq obs[t].heldAtCall
        /\ Cardinality(obs[t].snaps) > 1

\* C21: a thread whose Merge call has ended, by its return or by a panic,
\* holds no read lock and no write lock; and the Load or Write call it makes
\* next never waits at the lock of its registry.
C21_MergeReleasesLocks ==
    \A t \in Threads :
        /\ pc[t] \in {"idle", "panicked"} =>
               \A r \in RegIds : readers[r][t] = 0 /\ wOwner[r] # t
        /\ pc[t] \in {"load_lock", "load_store", "write_lock", "write_copy"} =>
               ~Waiting(t)

\* C21's case: a Load has stored its key in the registry that was the valid
\* source of an earlier Merge call that panicked after copying it (the
\* registry that call filled was allocated and never returned).
C21_Witness ==
    \E t \in Threads : \E m \in alloc \ published :
        /\ pc[t] = "load_unlock" /\ op[t].cfg = 1
        /\ RegisteredKeys(regs[m]) # {}
        /\ RegisteredKeys(regs[2]) = {}
        /\ wOwner[m] = NoThread

\* The arguments of a list that are not keys of a supported type.
NotKeys(keys) == {i \in DOMAIN keys : KeyType(keys[i]) \notin Types}

\* What Exists lists for an argument list on a config when an argument that
\* is not a key counts as missing under the empty name.
RECURSIVE MissingOrEmpty(_, _)
MissingOrEmpty(keys, c) ==
    IF Len(keys) = 0 THEN << >>
    ELSE LET rest == MissingOrEmpty(SubSeq(keys, 1, Len(keys) - 1), c)
             k == keys[Len(keys)]
         IN  IF KeyType(k) \notin Types THEN Append(rest, "")
             ELSE IF k \in RegisteredKeys(c) THEN rest
             ELSE Append(rest, KeyName(k))

\* C22: an Exists call with an argument that is not a key of a supported
\* type returns the missing-variable error, whatever the registry holds, and
\* its Keys hold the empty string for that argument, at its place.
C22_NotAKeyIsMissing ==
    \A t \in Threads :
        /\ (pc[t] = "ck_runlock" /\ op[t].i \in NotKeys(op[t].keys)) =>
               ~op[t].found /\ op[t].keyName = ""
        /\ (pc[t] = "exists_ret" /\ NotKeys(op[t].keys) # {}) =>
               /\ op[t].err = ErrMissingVariable
               /\ op[t].missing = MissingOrEmpty(op[t].keys, regs[op[t].cfg])
               /\ Cardinality({j \in DOMAIN op[t].missing : op[t].missing[j] = ""})
                      = Cardinality(NotKeys(op[t].keys))

\* C22's case: Exists with a registered key and the plain string of its
\* name, on a registry that holds that name: the Keys are the empty string.
C22_Witness ==
    \E t \in Threads :
        /\ pc[t] = "exists_ret" /\ op[t].keys = <<kS, pA>>
        /\ kS \in RegisteredKeys(regs[op[t].cfg])
        /\ op[t].missing = <<"">>

=============================================================================
